---- MODULE Spec2Model ----
(***************************************************************************)
(* Model of src/graphql_client.py: the GraphQLClient class (login,         *)
(* execute_query, print_result) and the command-line entry point main().   *)
(*                                                                         *)
(* Python values that come out of json.loads are modelled as tagged        *)
(* records, so that the dynamic checks of the code (truthiness, .get on a  *)
(* non-dict, subscripting, iteration) can be decided the way the           *)
(* interpreter decides them.                                               *)
(***************************************************************************)
EXTENDS Integers, Sequences, FiniteSets, TLC

VARIABLES
    base_url, token, verbose,   \* the fields of the GraphQLClient instance
    requests,                   \* the calls of session.post so far, in order
    calls,                      \* number of method calls made on the client
    call, ret, raised, out,     \* the last method call: what it was given,
                                \* what it returned, whether an exception left
                                \* it, and the lines it printed
    pc, args, query, variables, result, exit   \* main(): position and locals

vars == <<base_url, token, verbose, requests, calls, call, ret, raised, out,
          pc, args, query, variables, result, exit>>

mainVars == <<pc, args, query, variables, result, exit>>

(***************************************************************************)
(* Bounds of the model.                                                    *)
(***************************************************************************)
MaxCalls == 3

(***************************************************************************)
(* Python / JSON values.                                                   *)
(***************************************************************************)
JNull == [t |-> "null"]
JBool(b) == [t |-> "bool", b |-> b]
JNum(n) == [t |-> "num", n |-> n]
JStr(s) == [t |-> "str", s |-> s]
JArr(a) == [t |-> "arr", a |-> a]
JObj(o) == [t |-> "obj", o |-> o]
JTrue == JBool(TRUE)
JFalse == JBool(FALSE)
EmptyMap == [k \in {} |-> JNull]
None == JNull

\* bool(v) of the interpreter: None, False, 0, "", [] and {} are falsy.
Truthy(v) ==
    CASE v.t = "null" -> FALSE
      [] v.t = "bool" -> v.b
      [] v.t = "num" -> v.n # 0
      [] v.t = "str" -> v.s # ""
      [] v.t = "arr" -> Len(v.a) > 0
      [] v.t = "obj" -> DOMAIN v.o # {}

\* v.get exists only on a dict; on anything else it is an AttributeError.
IsObj(v) == v.t = "obj"

\* d.get(k, dflt) on a dict d.
Get(d, k, dflt) == IF k \in DOMAIN d.o THEN d.o[k] ELSE dflt

\* v[k] with a string key k succeeds only on a dict that has the key
\* (KeyError on a dict without it, TypeError on str, list, int, bool).
CanSubscript(v, k) == IsObj(v) /\ k \in DOMAIN v.o

\* x[:n] succeeds on str and list, TypeError on every other value.
CanSlice(v) == v.t \in {"str", "arr"}

\* "for e in v" is a TypeError on int, bool and None; a str yields its
\* characters and a dict its keys, which are str values (a model string is
\* an atom, so one str element stands for its characters).
Iterable(v) == v.t \in {"arr", "str", "obj"}

RECURSIVE SetToSeq(_)
SetToSeq(S) ==
    IF S = {} THEN <<>>
    ELSE LET x == CHOOSE y \in S : TRUE IN <<x>> \o SetToSeq(S \ {x})

\* The elements a for-loop over v visits.
Elements(v) ==
    CASE v.t = "arr" -> v.a
      [] v.t = "str" -> <<JStr(v.s)>>
      [] v.t = "obj" -> [i \in 1..Cardinality(DOMAIN v.o) |-> JStr(SetToSeq(DOMAIN v.o)[i])]

(***************************************************************************)
(* json.dumps and json.loads, on token sequences.                          *)
(***************************************************************************)
P(c) == [k |-> "p", c |-> c]
TLit(l) == [k |-> "l", l |-> l]
TNum(n) == [k |-> "n", n |-> n]
TStr(s) == [k |-> "s", s |-> s]

RECURSIVE Dumps(_), DumpItems(_, _), DumpMembers(_, _, _)
Dumps(v) ==
    CASE v.t = "null" -> <<TLit("null")>>
      [] v.t = "bool" -> <<TLit(IF v.b THEN "true" ELSE "false")>>
      [] v.t = "num" -> <<TNum(v.n)>>
      [] v.t = "str" -> <<TStr(v.s)>>
      [] v.t = "arr" -> <<P("[")>> \o DumpItems(v.a, 1) \o <<P("]")>>
      [] v.t = "obj" -> <<P("{")>> \o DumpMembers(v.o, SetToSeq(DOMAIN v.o), 1) \o <<P("}")>>

DumpItems(a, i) ==
    IF i > Len(a) THEN <<>>
    ELSE (IF i > 1 THEN <<P(",")>> ELSE <<>>) \o Dumps(a[i]) \o DumpItems(a, i + 1)

\* json.dumps that writes only the first member of an object
DumpFirstMember(o, keys, i) ==
    IF i > Len(keys) THEN <<>>
    ELSE <<TStr(keys[i]), P(":")>> \o Dumps(o[keys[i]])

DumpMembers(o, keys, i) ==
    IF i > Len(keys) THEN <<>>
    ELSE (IF i > 1 THEN <<P(",")>> ELSE <<>>)
         \o <<TStr(keys[i]), P(":")>> \o Dumps(o[keys[i]])
         \o DumpMembers(o, keys, i + 1)

RECURSIVE ParseValue(_, _), ParseItems(_, _, _), ParseMembers(_, _, _)
ParseValue(toks, i) ==
    LET tk == toks[i] IN
    CASE tk.k = "l" ->
            [v |-> IF tk.l = "null" THEN JNull ELSE JBool(tk.l = "true"), i |-> i + 1]
      [] tk.k = "n" -> [v |-> JNum(tk.n), i |-> i + 1]
      [] tk.k = "s" -> [v |-> JStr(tk.s), i |-> i + 1]
      [] tk.k = "p" /\ tk.c = "[" ->
            IF toks[i + 1] = P("]") THEN [v |-> JArr(<<>>), i |-> i + 2]
            ELSE ParseItems(toks, i + 1, <<>>)
      [] tk.k = "p" /\ tk.c = "{" ->
            IF toks[i + 1] = P("}") THEN [v |-> JObj(EmptyMap), i |-> i + 2]
            ELSE ParseMembers(toks, i + 1, EmptyMap)

ParseItems(toks, i, acc) ==
    LET r == ParseValue(toks, i) IN
    IF toks[r.i] = P(",") THEN ParseItems(toks, r.i + 1, Append(acc, r.v))
    ELSE [v |-> JArr(Append(acc, r.v)), i |-> r.i + 1]

ParseMembers(toks, i, acc) ==
    LET r == ParseValue(toks, i + 2)
        m == (toks[i].s :> r.v) @@ acc
    IN IF toks[r.i] = P(",") THEN ParseMembers(toks, r.i + 1, m)
       ELSE [v |-> JObj(m), i |-> r.i + 1]

Loads(toks) == ParseValue(toks, 1).v

(***************************************************************************)
(* HTTP responses as the client sees them: session.post either raises      *)
(* (transport failure) or returns a status and a body; response.json()     *)
(* either raises (NonJSON) or gives a value.                               *)
(***************************************************************************)
NonJSON == [t |-> "nonjson"]
Response(status, body) == [fail |-> FALSE, status |-> status, body |-> body]
TransportFailure == [fail |-> TRUE, status |-> 0, body |-> NonJSON]
NoResponse == [fail |-> FALSE, status |-> 0, body |-> NonJSON]

\* One printed line: what it is and the values formatted into it.
Line(k, v) == [k |-> k, v |-> v]

\* Default texts of the source: '未知错误', '未命名产品', '未知供应商'.
UnknownError == JStr("unknown error")
DefaultTitle == JStr("unnamed product")
DefaultVendor == JStr("unknown vendor")

AllObj(es) == \A i \in 1..Len(es) : IsObj(es[i])

(***************************************************************************)
(* GraphQLClient.login                                                     *)
(***************************************************************************)
\* result['user']['email'] and result['user']['role'] of the verbose report.
UserReportOk(user) == CanSubscript(user, "email") /\ CanSubscript(user, "role")

LoginAccepts(r) == Truthy(Get(r, "success", JFalse)) /\ Truthy(Get(r, "token", None))

login(tok, verb, resp) ==
    LET pre == IF verb THEN <<Line("login_url", <<>>), Line("login_email", <<>>)>>
               ELSE <<>>
        Caught(t, lines) ==
            [ret |-> JFalse, token |-> t, raised |-> FALSE, sent |-> TRUE,
             out |-> pre \o lines \o <<Line("login_exception", <<>>)>>]
        Failed(lines) ==
            [ret |-> JFalse, token |-> tok, raised |-> FALSE, sent |-> TRUE,
             out |-> pre \o lines]
    IN
    IF resp.fail THEN Caught(tok, <<>>)
    ELSE IF resp.status = 200 THEN
        IF ~IsObj(resp.body) THEN Caught(tok, <<>>)
        ELSE LET r == resp.body IN
            IF LoginAccepts(r) THEN
                LET newTok == r.o["token"]
                    user == Get(r, "user", None)
                    report == <<Line("login_ok", <<>>),
                                Line("token_type", <<Get(r, "tokenType", JStr("Bearer"))>>)>>
                IN
                IF ~verb THEN
                    [ret |-> JTrue, token |-> newTok, raised |-> FALSE,
                     sent |-> TRUE, out |-> pre]
                ELSE IF Truthy(user) /\ ~UserReportOk(user) THEN
                    Caught(newTok, report)
                ELSE
                    [ret |-> JTrue, token |-> newTok, raised |-> FALSE, sent |-> TRUE,
                     out |-> pre \o report
                             \o (IF Truthy(user)
                                 THEN <<Line("user_info", <<user.o["email"], user.o["role"]>>)>>
                                 ELSE <<>>)
                             \o <<Line("expires", <<Get(r, "expiresIn", JStr("unknown"))>>)>>]
            ELSE Failed(<<Line("login_failed", <<Get(r, "error", UnknownError)>>)>>)
    ELSE
        Failed(<<Line("login_http", <<JNum(resp.status)>>),
                 IF IsObj(resp.body)
                 THEN Line("error_info", <<Get(resp.body, "error", UnknownError)>>)
                 ELSE Line("error_raw", <<>>)>>)

(***************************************************************************)
(* GraphQLClient.execute_query                                             *)
(***************************************************************************)
RECURSIVE ErrorLines(_, _)
\* The lines "  - <message>" printed until an entry without .get stops the loop.
ErrorLines(es, i) ==
    IF i > Len(es) \/ ~IsObj(es[i]) THEN <<>>
    ELSE <<Line("error_message", <<Get(es[i], "message", None)>>)>> \o ErrorLines(es, i + 1)

\* The report of body['errors']: the lines printed and whether it raised.
ErrorReport(body, header) ==
    IF ~IsObj(body) THEN [raised |-> TRUE, out |-> <<>>]
    ELSE LET errors == Get(body, "errors", None) IN
        IF ~Truthy(errors) THEN [raised |-> FALSE, out |-> <<>>]
        ELSE IF ~Iterable(errors) THEN [raised |-> TRUE, out |-> header]
        ELSE [raised |-> ~AllObj(Elements(errors)),
              out |-> header \o ErrorLines(Elements(errors), 1)]

\* line 95 with the guard dropped
TokenUnsetDropped(tok) == FALSE

\* line 95: "if not self.token"
TokenUnset(tok) == ~Truthy(tok)

\* line 125 written as "any status below 500"
StatusOkLoose(status) == status < 500

\* line 125: "if response.status_code == 200"
StatusOk(status) == status = 200

\* self.token forgotten when the server answers 401
TokenClearedOn401(tok, resp) == IF ~resp.fail /\ resp.status = 401 THEN None ELSE tok

\* self.token after the request: execute_query only reads it.
TokenAfterQuery(tok, resp) == tok

execute_query(tok, verb, vars_, resp) ==
    IF TokenUnset(tok) THEN
        [ret |-> None, token |-> tok, raised |-> FALSE, sent |-> FALSE,
         out |-> <<Line("not_logged_in", <<>>)>>]
    ELSE IF verb /\ ~CanSlice(tok) THEN
        [ret |-> None, token |-> tok, raised |-> TRUE, sent |-> FALSE,
         out |-> <<Line("query_url", <<>>)>>]
    ELSE
        LET pre == IF verb
                   THEN <<Line("query_url", <<>>), Line("auth_header", <<tok>>),
                          Line("query_text", <<>>)>>
                        \o (IF Truthy(vars_) THEN <<[k |-> "variables", v |-> Dumps(vars_)]>>
                            ELSE <<>>)
                   ELSE <<>>
            Done(r, lines) ==
                [ret |-> r, token |-> TokenAfterQuery(tok, resp), raised |-> FALSE,
                 sent |-> TRUE,
                 out |-> pre \o lines]
        IN
        IF resp.fail THEN Done(None, <<Line("query_exception", <<>>)>>)
        ELSE IF StatusOk(resp.status) THEN
            LET rep == ErrorReport(resp.body, <<Line("query_errors", <<>>)>>) IN
            IF rep.raised THEN Done(None, rep.out \o <<Line("query_exception", <<>>)>>)
            ELSE Done(resp.body, rep.out)
        ELSE
            LET rep == ErrorReport(resp.body, <<>>)
                first == IF resp.status = 401 THEN Line("auth_failed", <<>>)
                         ELSE Line("query_http", <<JNum(resp.status)>>)
            IN Done(None, <<first>> \o rep.out
                          \o (IF rep.raised THEN <<Line("response_raw", <<>>)>> ELSE <<>>))

(***************************************************************************)
(* GraphQLClient.print_result                                              *)
(***************************************************************************)
RECURSIVE ItemLines(_, _)
\* "i. title (vendor) - price: min - max", until an item without .get raises.
ItemLines(items, i) ==
    IF i > Len(items) \/ ~IsObj(items[i]) THEN <<>>
    ELSE <<Line("item", <<JNum(i), Get(items[i], "title", DefaultTitle),
                          Get(items[i], "vendor", DefaultVendor),
                          Get(items[i], "minPrice", JNum(0)),
                          Get(items[i], "maxPrice", JNum(0))>>)>>
         \o ItemLines(items, i + 1)

NoResult(res) == ~Truthy(res)

UserLines(me) ==
    <<Line("user_email", <<Get(me, "email", None)>>),
      Line("user_id", <<Get(me, "userId", None)>>),
      Line("user_role", <<Get(me, "role", None)>>)>>

ProductLines(products) ==
    LET count == <<Line("count", <<Get(products, "totalCount", JNum(0))>>)>>
        items == Get(products, "items", None)
    IN
    IF ~Truthy(items) THEN [raised |-> FALSE, out |-> count]
    ELSE IF ~Iterable(items) THEN
        [raised |-> TRUE, out |-> count \o <<Line("list_header", <<>>)>>]
    ELSE [raised |-> ~AllObj(Elements(items)),
          out |-> count \o <<Line("list_header", <<>>)>> \o ItemLines(Elements(items), 1)]

print_result(res, format_output) ==
    IF NoResult(res) THEN [raised |-> FALSE, out |-> <<>>]
    ELSE
        LET head == IF format_output
                    THEN <<Line("result_header", <<>>), [k |-> "json", v |-> Dumps(res)]>>
                    ELSE <<Line("repr", <<res>>)>>
        IN
        IF ~IsObj(res) THEN [raised |-> TRUE, out |-> head]
        ELSE LET data == Get(res, "data", None) IN
        IF ~Truthy(data) THEN [raised |-> FALSE, out |-> head]
        ELSE IF ~IsObj(data) THEN [raised |-> TRUE, out |-> head]
        ELSE LET me == Get(data, "me", None)
                 products == Get(data, "products", None)
             IN
        IF Truthy(me) /\ ~IsObj(me) THEN [raised |-> TRUE, out |-> head]
        ELSE LET meOut == IF Truthy(me) THEN UserLines(me) ELSE <<>> IN
        IF ~Truthy(products) THEN [raised |-> FALSE, out |-> head \o meOut]
        ELSE IF ~IsObj(products) THEN [raised |-> TRUE, out |-> head \o meOut]
        ELSE LET pl == ProductLines(products) IN
             [raised |-> pl.raised, out |-> head \o meOut \o pl.out]

(***************************************************************************)
(* The inputs: server answers and values handed to print_result.           *)
(***************************************************************************)
BaseUrls == {"http://localhost:3000"}
Statuses == {200, 401, 500}

Me == JObj([userId |-> JStr("1"), email |-> JStr("x@y.com"), role |-> JStr("user")])
FullUser == JObj([email |-> JStr("a@b.com"), role |-> JStr("admin")])
ProductA == JObj([title |-> JStr("A"), vendor |-> JStr("V1"),
                  minPrice |-> JNum(1), maxPrice |-> JNum(2)])

LoginBodies ==
    { NonJSON,
      JArr(<<JNum(1)>>),
      JObj(EmptyMap),
      JObj([success |-> JTrue, token |-> JStr("abc"), user |-> FullUser]),
      JObj([success |-> JTrue, token |-> JStr("abc")]),
      JObj([success |-> JTrue, token |-> JStr("xyz"),
            user |-> JObj([email |-> JStr("a@b.com")])]),
      JObj([success |-> JTrue, token |-> JStr("xyz"), user |-> JStr("bob")]),
      JObj([success |-> JTrue, token |-> JStr("abc"), tokenType |-> JStr("JWT"),
            expiresIn |-> JNum(3600), user |-> JObj(EmptyMap)]),
      JObj([success |-> JTrue, token |-> JNum(123)]),
      JObj([success |-> JTrue, token |-> JStr("")]),
      JObj([success |-> JTrue]),
      JObj([success |-> JFalse, error |-> JStr("bad credentials")]),
      JObj([success |-> JFalse, token |-> JStr("abc")]) }

QueryBodies ==
    { NonJSON,
      JNull,
      JArr(<<JNum(1)>>),
      JObj(EmptyMap),
      JObj([data |-> JObj([me |-> Me])]),
      JObj([data |-> JObj([me |-> Me]),
            errors |-> JArr(<<JObj([message |-> JStr("deprecated field")])>>)]),
      JObj([data |-> JObj([me |-> Me]), errors |-> JArr(<<JObj(EmptyMap)>>)]),
      JObj([data |-> JObj([me |-> Me]), errors |-> JArr(<<JStr("boom")>>)]),
      JObj([data |-> JNull, errors |-> JArr(<<>>)]),
      JObj([errors |-> JArr(<<JObj([message |-> JStr("denied")])>>)]),
      JObj([data |-> JObj([me |-> JStr("x")])]),
      JObj([data |-> JObj([products |->
                JObj([totalCount |-> JNum(2),
                      items |-> JArr(<<ProductA, JObj(EmptyMap)>>)])])]),
      JObj([data |-> JObj([me |-> Me,
                           products |-> JObj([totalCount |-> JNum(1),
                                              items |-> JArr(<<ProductA>>)])])]) }

PrintInputs ==
    (QueryBodies \ {NonJSON})
    \cup { JFalse, JNum(0), JNum(5), JStr(""), JStr("x"), JArr(<<>>),
           JObj([data |-> JArr(<<JNum(1)>>)]),
           JObj([data |-> JObj([products |-> JObj(EmptyMap)])]),
           JObj([data |-> JObj([products |-> JObj([items |-> JArr(<<ProductA>>)])])]),
           JObj([data |-> JObj([products |-> JObj([totalCount |-> JNum(0)])])]),
           JObj([data |-> JObj([products |->
                    JObj([totalCount |-> JNum(2),
                          items |-> JArr(<<ProductA, JNum(3)>>)])])]),
           JObj([data |-> JObj([products |-> JObj([items |-> JStr("ab")])])]),
           JObj([data |-> JObj([me |-> JStr("s"),
                                products |-> JObj([totalCount |-> JNum(1)])])]),
           JObj([data |-> JObj([me |-> JObj(EmptyMap),
                                products |-> JObj([totalCount |-> JNum(1)])])]) }

VariablesInputs == { None, JObj(EmptyMap), JObj([id |-> JNum(1)]) }

Responses(bodies) ==
    {TransportFailure} \cup { Response(s, b) : s \in Statuses, b \in bodies }

(***************************************************************************)
(* The client driven method by method.                                     *)
(***************************************************************************)
LoginRequest(url, endpoint) ==
    [url |-> <<url, endpoint>>, authorization |-> None, query |-> None, payload |-> {"email", "password"}]

QueryRequest(url, endpoint, tok, q, vars_) ==
    [url |-> <<url, endpoint>>, authorization |-> tok, query |-> q,
     payload |-> {"query"} \cup (IF Truthy(vars_) THEN {"variables"} ELSE {})]

NoMain ==
    /\ pc = "api"
    /\ UNCHANGED mainVars

\* GraphQLClient.__init__
Init ==
    /\ base_url \in BaseUrls
    /\ verbose \in BOOLEAN
    /\ token = None
    /\ requests = <<>>
    /\ calls = 0
    /\ call = [op |-> "init", resp |-> NoResponse, arg |-> None, fmt |-> FALSE]
    /\ ret = None
    /\ raised = FALSE
    /\ out = <<>>
    /\ pc = "api"
    /\ args = None
    /\ query = None
    /\ variables = None
    /\ result = None
    /\ exit = [code |-> 0, how |-> "running"]

DoLogin(resp, endpoint) ==
    LET o == login(token, verbose, resp) IN
    /\ token' = o.token
    /\ requests' = Append(requests, LoginRequest(base_url, endpoint))
    /\ call' = [op |-> "login", resp |-> resp, arg |-> None, fmt |-> FALSE]
    /\ ret' = o.ret
    /\ raised' = o.raised
    /\ out' = o.out
    /\ calls' = calls + 1
    /\ UNCHANGED <<base_url, verbose>>

DoExecuteQuery(q, vars_, resp, endpoint) ==
    LET o == execute_query(token, verbose, vars_, resp) IN
    /\ token' = o.token
    /\ requests' = IF o.sent
                   THEN Append(requests, QueryRequest(base_url, endpoint, token, q, vars_))
                   ELSE requests
    /\ call' = [op |-> "execute_query", resp |-> IF o.sent THEN resp ELSE NoResponse,
                arg |-> vars_, fmt |-> FALSE]
    /\ ret' = o.ret
    /\ raised' = o.raised
    /\ out' = o.out
    /\ calls' = calls + 1
    /\ UNCHANGED <<base_url, verbose>>

DoPrintResult(res, format_output) ==
    LET o == print_result(res, format_output) IN
    /\ call' = [op |-> "print_result", resp |-> NoResponse, arg |-> res,
                fmt |-> format_output]
    /\ ret' = None
    /\ raised' = o.raised
    /\ out' = o.out
    /\ calls' = calls + 1
    /\ UNCHANGED <<base_url, token, verbose, requests>>

Login ==
    /\ calls < MaxCalls
    /\ \E resp \in Responses(LoginBodies) : DoLogin(resp, "/auth/token")
    /\ NoMain

ExecuteQuery ==
    /\ calls < MaxCalls
    /\ \E vars_ \in VariablesInputs, resp \in Responses(QueryBodies) :
            DoExecuteQuery(JStr("{ me { userId } }"), vars_, resp, "/graphql")
    /\ NoMain

PrintResult ==
    /\ calls < MaxCalls
    /\ \E res \in PrintInputs, format_output \in BOOLEAN :
            DoPrintResult(res, format_output)
    /\ NoMain

Next == Login \/ ExecuteQuery \/ PrintResult

Spec == Init /\ [][Next]_vars

(***************************************************************************)
(* main(): the command-line entry point.                                   *)
(***************************************************************************)
\* The text of the default query (the "me" query of the source).
DefaultQuery == JStr("{ me { userId email role } }")

\* open(path).read(): the files that exist, and what they hold.
Files == [q_graphql |-> JStr("{ products { totalCount } }"), empty_graphql |-> JStr("")]
Readable(path) == path.s \in DOMAIN Files

\* json.loads of the texts given to --variables; every other text raises.
VariablesJson ==
    [obj_id_1 |-> JObj([id |-> JNum(1)]), empty_obj |-> JObj(EmptyMap), null |-> JNull]
ValidJson(text) == text.s \in DOMAIN VariablesJson

ArgsInputs ==
    [ url : BaseUrls,
      auth_endpoint : {"/auth/token"},
      graphql_endpoint : {"/graphql"},
      query : {None, JStr("{ me { email } }")},
      query_file : {None, JStr(""), JStr("q_graphql"), JStr("empty_graphql"),
                    JStr("missing_graphql")},
      variables : {None, JStr(""), JStr("obj_id_1"), JStr("empty_obj"), JStr("null"),
                   JStr("{invalid")},
      verbose : BOOLEAN ]

Running == [code |-> 0, how |-> "running"]
SysExit(code) == [code |-> code, how |-> "sys.exit"]
Returned == [code |-> 0, how |-> "return"]
\* An exception that leaves main(): the interpreter prints the traceback
\* and the process status is 1.
Uncaught == [code |-> 1, how |-> "uncaught"]

MainInit ==
    /\ base_url = ""
    /\ verbose = FALSE
    /\ token = None
    /\ requests = <<>>
    /\ calls = 0
    /\ call = [op |-> "init", resp |-> NoResponse, arg |-> None, fmt |-> FALSE]
    /\ ret = None
    /\ raised = FALSE
    /\ out = <<>>
    /\ pc = "query_text"
    /\ args \in ArgsInputs
    /\ query = None
    /\ variables = None
    /\ result = None
    /\ exit = Running

ClientUntouched == UNCHANGED <<base_url, token, verbose, requests, calls, call, ret, raised>>

\* lines 211-230
ResolveQuery ==
    /\ pc = "query_text"
    /\ IF Truthy(args.query_file) /\ ~Readable(args.query_file)
       THEN /\ out' = <<Line("query_file_error", <<>>)>>
            /\ exit' = SysExit(1)
            /\ pc' = "exited"
            /\ UNCHANGED query
       ELSE LET q == IF Truthy(args.query_file) THEN Files[args.query_file.s]
                     ELSE args.query
            IN /\ query' = IF ~Truthy(q) THEN DefaultQuery ELSE q
               /\ pc' = "variables"
               /\ UNCHANGED <<out, exit>>
    /\ ClientUntouched
    /\ UNCHANGED <<args, variables, result>>

\* lines 233-239
ParseVariables ==
    /\ pc = "variables"
    /\ IF Truthy(args.variables) /\ ~ValidJson(args.variables)
       THEN /\ out' = <<Line("variables_error", <<>>)>>
            /\ exit' = SysExit(1)
            /\ pc' = "exited"
            /\ UNCHANGED variables
       ELSE /\ variables' = IF Truthy(args.variables) THEN VariablesJson[args.variables.s]
                            ELSE None
            /\ pc' = "construct"
            /\ UNCHANGED <<out, exit>>
    /\ ClientUntouched
    /\ UNCHANGED <<args, query, result>>

\* line 242
Construct ==
    /\ pc = "construct"
    /\ base_url' = args.url
    /\ token' = None
    /\ verbose' = args.verbose
    /\ pc' = "login"
    /\ UNCHANGED <<requests, calls, call, ret, raised, out, args, query, variables,
                   result, exit>>

\* lines 245-246
MainLogin ==
    /\ pc = "login"
    /\ \E resp \in Responses(LoginBodies) :
        /\ DoLogin(resp, args.auth_endpoint)
        /\ IF Truthy(login(token, verbose, resp).ret)
           THEN pc' = "query" /\ UNCHANGED exit
           ELSE pc' = "exited" /\ exit' = SysExit(1)
    /\ UNCHANGED <<args, query, variables, result>>

\* line 249
MainExecuteQuery ==
    /\ pc = "query"
    /\ \E resp \in Responses(QueryBodies) :
        LET o == execute_query(token, verbose, variables, resp) IN
        /\ DoExecuteQuery(query, variables, resp, args.graphql_endpoint)
        /\ IF o.raised
           THEN pc' = "exited" /\ exit' = Uncaught /\ UNCHANGED result
           ELSE pc' = "print" /\ result' = o.ret /\ UNCHANGED exit
    /\ UNCHANGED <<args, query, variables>>

\* lines 252-253 and the return of main()
MainPrintResult ==
    /\ pc = "print"
    /\ IF Truthy(result)
       THEN /\ DoPrintResult(result, TRUE)
            /\ exit' = IF print_result(result, TRUE).raised THEN Uncaught ELSE Returned
       ELSE /\ exit' = Returned
            /\ UNCHANGED <<base_url, token, verbose, requests, calls, call, ret, raised, out>>
    /\ pc' = "exited"
    /\ UNCHANGED <<args, query, variables, result>>

MainNext ==
    \/ ResolveQuery
    \/ ParseVariables
    \/ Construct
    \/ MainLogin
    \/ MainExecuteQuery
    \/ MainPrintResult

MainSpec == MainInit /\ [][MainNext]_vars

(***************************************************************************)
(* Properties.                                                             *)
(***************************************************************************)
Called(op) == call.op = op
Calls(op) == call'.op = op /\ calls' = calls + 1
Answered == call.resp # NoResponse

\* C1: an execute_query call made while the stored token is unset returns
\* None, raises nothing and leaves the sequence of HTTP requests as it was.
C1_NoTokenNoRequest ==
    [][(Calls("execute_query") /\ token = None)
        => (ret' = None /\ ~raised' /\ requests' = requests)]_vars

\* An execute_query call made with no token, after a login that was sent and
\* failed: the only request on record is still that login.
C1_Witness ==
    /\ Called("execute_query")
    /\ token = None
    /\ ret = None
    /\ Len(requests) = 1
    /\ requests[1].payload = {"email", "password"}

\* C2: whenever a login call returns false, the stored token after the call
\* equals the stored token before the call.
C2_FailedLoginKeepsToken ==
    [][(Calls("login") /\ ret' = JFalse) => token' = token]_vars

\* C3: an HTTP 200 login answer whose body has a true success and a token
\* (a token the code's own test "result.get('token')" accepts) makes login
\* return true and store that token.
C3_AcceptedLoginReturnsTrue ==
    (/\ Called("login")
     /\ ~call.resp.fail
     /\ call.resp.status = 200
     /\ IsObj(call.resp.body)
     /\ LoginAccepts(call.resp.body))
    => (ret = JTrue /\ token = call.resp.body.o["token"])

\* C4: with a token set, execute_query returns None on status 401 whatever
\* the body, on every other non-200 status and on transport failure; a
\* result other than None comes only with status 200.
C4_OnlyStatus200GivesResult ==
    Called("execute_query") =>
        /\ (Answered /\ (call.resp.fail \/ call.resp.status # 200))
                => (ret = None /\ ~raised)
        /\ ret # None => (Answered /\ ~call.resp.fail /\ call.resp.status = 200)

\* A 401 answer that carries data in a JSON body, given to a client that
\* holds a token.
C4_Witness ==
    /\ Called("execute_query")
    /\ token # None
    /\ call.resp.status = 401
    /\ IsObj(call.resp.body)
    /\ "data" \in DOMAIN call.resp.body.o
    /\ ret = None

\* C5: with a token set, an HTTP 200 answer with a JSON object body makes
\* execute_query return the full parsed body, also when the body holds a
\* non-empty errors sequence (data and errors both still in the result).
C5_Status200ReturnsBody ==
    (/\ Called("execute_query")
     /\ Answered
     /\ ~call.resp.fail
     /\ call.resp.status = 200
     /\ IsObj(call.resp.body))
    => ret = call.resp.body

\* C6: execute_query and print_result never change the stored token; the
\* token changes only in a login call; base_url and verbose never change.
C6_TokenChangesOnlyInLogin ==
    [][/\ (token' # token => Calls("login"))
       /\ base_url' = base_url
       /\ verbose' = verbose]_vars

\* A print_result call that raised, on a client whose earlier login stored a
\* token and whose earlier query was answered 401.
C6_Witness ==
    /\ Called("print_result")
    /\ raised
    /\ token = JStr("abc")
    /\ Len(requests) = 2
    /\ requests[2].authorization = JStr("abc")

LocalInputError ==
    \/ Truthy(args.query_file) /\ ~Readable(args.query_file)
    \/ Truthy(args.variables) /\ ~ValidJson(args.variables)

\* C7: when main() has ended: after an unreadable --query-file or an invalid
\* --variables text (options given with a text, as the code tests them) the
\* exit code is 1 and no request was sent; after a login that returned false
\* the exit code is 1 and only the login request was sent; otherwise the
\* login request and then the query request were sent and the exit code is 0.
C7_ExitCodes ==
    pc = "exited" =>
        IF LocalInputError THEN exit.code = 1 /\ requests = <<>>
        ELSE IF Called("login") THEN
            /\ ret = JFalse
            /\ exit.code = 1
            /\ Len(requests) = 1
            /\ requests[1].url[2] = args.auth_endpoint
        ELSE
            /\ Len(requests) = 2
            /\ requests[1].url[2] = args.auth_endpoint
            /\ requests[2].url[2] = args.graphql_endpoint
            /\ exit.code = 0

PrintedJson == Len(out) >= 2 /\ out[2].k = "json" /\ Loads(out[2].v) = call.arg

\* C8 as first stated: print_result with format_output=True prints JSON
\* text that reparses to its input for every JSON value, the empty and falsy
\* ones included; only None makes it a no-op.
C8_RoundTripExceptNone ==
    (Called("print_result") /\ call.fmt) =>
        IF call.arg = None THEN out = <<>> ELSE PrintedJson

\* C8: print_result with format_output=True prints, for every truthy JSON
\* value, JSON text that reparses to a value equal to its input, whatever
\* the summary does afterwards; every falsy value (None, false, 0, "", [],
\* {}) makes it a no-op.
C8_RoundTripOfTruthy ==
    (Called("print_result") /\ call.fmt) =>
        IF Truthy(call.arg) THEN out[1].k = "result_header" /\ PrintedJson
        ELSE out = <<>> /\ ~raised

\* A result with nested objects, a sequence and an empty object, printed
\* with format_output=True and followed by summary lines.
C8_Witness ==
    /\ Called("print_result")
    /\ call.fmt
    /\ IsObj(call.arg)
    /\ "data" \in DOMAIN call.arg.o
    /\ IsObj(call.arg.o["data"])
    /\ DOMAIN call.arg.o["data"].o = {"me", "products"}
    /\ Len(out) > 2
    /\ ~raised

\* C9: no call of login, execute_query or print_result is left by an
\* exception, and main() never ends by an uncaught exception.
C9_NothingRaises == ~raised /\ exit.how # "uncaught"

HasData(res) == IsObj(res) /\ Truthy(Get(res, "data", None)) /\ IsObj(res.o["data"])
Data(res) == res.o["data"]
OutLines(k) == SelectSeq(out, LAMBDA l : l.k = k)

\* C10: for every result print_result accepts and both values of
\* format_output: when data.products is there (an object with content) the
\* count line shows products.totalCount, or 0 without it, and a non-empty
\* items sequence gives one line per item, numbered from 1 in order, with
\* the defaults for absent title, vendor and prices; when data.me is there
\* the user summary is printed; both happen when both keys are there.
C10_Summaries ==
    (Called("print_result") /\ Truthy(call.arg) /\ HasData(call.arg)) =>
        LET data == Data(call.arg)
            me == Get(data, "me", None)
            products == Get(data, "products", None)
        IN
        /\ Truthy(me) => Len(OutLines("user_email")) = 1
        /\ (Truthy(products) /\ IsObj(products)) =>
            /\ OutLines("count") = <<Line("count", <<Get(products, "totalCount", JNum(0))>>)>>
            /\ LET items == Get(products, "items", None) IN
               (items.t = "arr" /\ Len(items.a) > 0) =>
                    /\ Len(OutLines("item")) = Len(items.a)
                    /\ \A i \in 1..Len(items.a) :
                        /\ IsObj(items.a[i])
                        /\ OutLines("item")[i] =
                            Line("item", <<JNum(i),
                                           Get(items.a[i], "title", DefaultTitle),
                                           Get(items.a[i], "vendor", DefaultVendor),
                                           Get(items.a[i], "minPrice", JNum(0)),
                                           Get(items.a[i], "maxPrice", JNum(0))>>)

====
